---- MODULE Spec2Model ----
(***************************************************************************)
(* Model of bump-pydantic's two codemods:                                  *)
(*   - ClassDefVisitor (class_def_visitor.py): classifies class names as   *)
(*     BaseModel-derived or not, with a ledger of forward references;      *)
(*   - AddDefaultNoneCommand (add_default_none.py): rewrites the annotated *)
(*     fields of BaseModel-derived classes.                                *)
(*                                                                         *)
(* A qualified name is a sequence of tokens; the token SRC stands for the  *)
(* substring "...src." that get_classname removes and that the visitor     *)
(* prepends to build the alias of a class name.                            *)
(***************************************************************************)
EXTENDS Integers, Sequences, FiniteSets, TLC

VARIABLES
    scratch,            \* context.scratch: base_model_cls, no_base_model_cls, cls
    call,               \* summary of the last visit_ClassDef call (history)
    defs,               \* driver: the class definitions of the file set, in visiting order
    idx,                \* driver: position of the next definition in the current pass
    passes,             \* driver: number of completed passes
    progress,           \* driver: the current pass added to members or nonMembers
    fixed,              \* driver: the last completed pass added nothing
    inside_base_model,  \* AddDefaultNoneCommand.inside_base_model
    should_add_none,    \* AddDefaultNoneCommand.should_add_none
    stack,              \* the class definitions the traversal is inside of, innermost last
    pc,                 \* "body", "field" (between visit_ and leave_AnnAssign) or "left"
    original_node,      \* the AnnAssign being visited / last left, as it was in the file
    updated_node,       \* the AnnAssign that leave_AnnAssign returned for it
    drain               \* a visit_ClassDef call in progress, statement by statement

clsVars == <<scratch, call>>
driverVars == <<defs, idx, passes, progress, fixed>>
normVars == <<inside_base_model, should_add_none, stack, pc, original_node, updated_node>>

vars == <<scratch, call, defs, idx, passes, progress, fixed,
          inside_base_model, should_add_none, stack, pc, original_node, updated_node,
          drain>>

(***************************************************************************)
(* Names                                                                   *)
(***************************************************************************)
SRC == "...src."

Ids == {"A", "B"}

CanonIds == {<<i>> : i \in Ids}

\* ClassDefVisitor.__init__: the seed of base_model_cls
BaseModelSeeds ==
    { <<"pydantic.BaseModel">>, <<"pydantic.main.BaseModel">>,
      <<"libutil.util.NoonBaseModel">>, <<"libutil.NoonBaseModel">>,
      <<"libutil.util.CamelCaseBaseModel">>, <<"libutil.CamelCaseBaseModel">> }

Root == <<"pydantic.BaseModel">>

\* fqn.name.replace("...src.", ""): every occurrence is removed
get_classname(name) == SelectSeq(name, LAMBDA t : t # SRC)

\* f"...src.{classname}"
Alias(classname) == <<SRC>> \o classname

(***************************************************************************)
(* The classification state                                                *)
(***************************************************************************)
EmptyCls == [k \in {} |-> {}]

\* faulty variant: the children are read with cls[key] and the key stays in cls
ClsPop_keeping_key(c, key) == c

\* defaultdict(set).pop(key)
ClsPop(c, key) == [k \in (DOMAIN c) \ {key} |-> c[k]]

\* defaultdict(set)[key].add(value)
ClsAdd(c, key, value) ==
    [k \in (DOMAIN c) \cup {key} |->
        IF k = key
        THEN (IF k \in DOMAIN c THEN c[k] ELSE {}) \cup {value}
        ELSE c[k]]

\* the scratch dictionary after ClassDefVisitor.__init__
InitScratch ==
    [ base_model_cls    |-> BaseModelSeeds,
      no_base_model_cls |-> {},
      cls               |-> EmptyCls ]

(***************************************************************************)
(* Syntax tree nodes (libcst): a node is [kind, value, parts]; value is    *)
(* the node's own text (a name, an operator, an argument's keyword) and    *)
(* parts its children in order.                                            *)
(***************************************************************************)
Name(n) == [kind |-> "Name", value |-> n, parts |-> <<>>]
Integer(n) == [kind |-> "Integer", value |-> n, parts |-> <<>>]
Attribute(v, a) == [kind |-> "Attribute", value |-> "", parts |-> <<v, a>>]
Subscript(v, slice) == [kind |-> "Subscript", value |-> "", parts |-> <<v>> \o slice]
BinaryOperation(l, op, r) == [kind |-> "BinaryOperation", value |-> op, parts |-> <<l, r>>]
\* cst.Arg: keyword "" is a positional argument
Arg(keyword, v) == [kind |-> "Arg", value |-> keyword, parts |-> <<v>>]
Call(func, args) == [kind |-> "Call", value |-> "", parts |-> <<func>> \o args]
\* AnnAssign.value is None: the field has no default
NoValue == [kind |-> "NoValue", value |-> "", parts |-> <<>>]

AnnAssign(annotation, value) == [annotation |-> annotation, value |-> value]
NoAnnAssign == AnnAssign(NoValue, NoValue)

\* m.Name(n)
IsName(e, n) == e.kind = "Name" /\ e.value = n

\* m.Attribute(m.Name("typing"), m.Name(a))
IsTypingAttribute(e, a) ==
    /\ e.kind = "Attribute"
    /\ IsName(e.parts[1], "typing")
    /\ IsName(e.parts[2], a)

\* faulty variant: the bare name Optional is not recognised, only typing.Optional
MatchesImplicitOptional_typing_only(e) ==
    \/ /\ e.kind = "Subscript"
       /\ IsTypingAttribute(e.parts[1], "Optional")
    \/ /\ e.kind = "Subscript"
       /\ (IsName(e.parts[1], "Union") \/ IsTypingAttribute(e.parts[1], "Union"))
       /\ \E i \in 2..Len(e.parts) : IsName(e.parts[i], "None")
    \/ IsName(e, "Any")
    \/ IsTypingAttribute(e, "Any")
    \/ /\ e.kind = "BinaryOperation" /\ e.value = "|" /\ IsName(e.parts[1], "None")
    \/ /\ e.kind = "BinaryOperation" /\ e.value = "|" /\ IsName(e.parts[2], "None")

\* the matcher of visit_AnnAssign applied to node.annotation.annotation
MatchesImplicitOptional(e) ==
    \/ /\ e.kind = "Subscript"
       /\ (IsName(e.parts[1], "Optional") \/ IsTypingAttribute(e.parts[1], "Optional"))
    \/ /\ e.kind = "Subscript"
       /\ (IsName(e.parts[1], "Union") \/ IsTypingAttribute(e.parts[1], "Union"))
       /\ \E i \in 2..Len(e.parts) : IsName(e.parts[i], "None")
    \/ IsName(e, "Any")
    \/ IsTypingAttribute(e, "Any")
    \/ /\ e.kind = "BinaryOperation" /\ e.value = "|" /\ IsName(e.parts[1], "None")
    \/ /\ e.kind = "BinaryOperation" /\ e.value = "|" /\ IsName(e.parts[2], "None")

\* m.matches(value, m.Call(func=m.Name("Field")))
IsFieldCall(e) == e.kind = "Call" /\ IsName(e.parts[1], "Field")

\* updated_node.value.args
ArgsOf(e) == Tail(e.parts)

\* any(arg.keyword and arg.keyword.value in ("default", "default_factory") for arg in args)
HasDefaultKeyword(args) ==
    \E i \in 1..Len(args) : args[i].value \in {"default", "default_factory"}

\* args[0].keyword is None
FirstIsPositional(args) == args[1].value = ""

\* leave_AnnAssign, lines 147-169: the None default
AddDefaultNone(inside, should, node) ==
    IF inside /\ should
    THEN IF node.value = NoValue
         THEN [node EXCEPT !.value = Name("None")]
         ELSE IF IsFieldCall(node.value)
         THEN LET args == ArgsOf(node.value)
              IN  IF args # <<>>
                  THEN IF FirstIsPositional(args) THEN node
                       ELSE IF HasDefaultKeyword(args) THEN node
                       ELSE [node EXCEPT !.value =
                               Call(Name("Field"), <<Arg("", Name("None"))>> \o args)]
                  ELSE [node EXCEPT !.value =
                               Call(Name("Field"), <<Arg("", Name("None"))>>)]
         ELSE node
    ELSE node

\* Optional[<annotation>]
NewAnnotation(annotation) == Subscript(Name("Optional"), <<annotation>>)

\* faulty variant: the annotation is wrapped whether or not should_add_none is set
add_optional_ignoring_should_add_none(inside, should, node) ==
    IF ~inside THEN node
    ELSE IF node.value = NoValue THEN node
    ELSE IF IsFieldCall(node.value)
    THEN LET args == ArgsOf(node.value)
         IN  IF args # <<>> /\ (FirstIsPositional(args) \/ HasDefaultKeyword(args))
             THEN [node EXCEPT !.annotation = NewAnnotation(@)]
             ELSE node
    ELSE [node EXCEPT !.annotation = NewAnnotation(@)]

\* _handle_leave_AnnAssign_add_optional_for_default
handle_leave_AnnAssign_add_optional_for_default(inside, should, node) ==
    IF ~inside \/ should THEN node
    ELSE IF node.value = NoValue THEN node
    ELSE IF IsFieldCall(node.value)
    THEN LET args == ArgsOf(node.value)
         IN  IF args # <<>>
             THEN IF FirstIsPositional(args)
                  THEN [node EXCEPT !.annotation = NewAnnotation(@)]
                  ELSE IF HasDefaultKeyword(args)
                  THEN [node EXCEPT !.annotation = NewAnnotation(@)]
                  ELSE node
             ELSE node
    ELSE [node EXCEPT !.annotation = NewAnnotation(@)]

\* the node leave_AnnAssign returns
leave_AnnAssign(inside, should, node) ==
    handle_leave_AnnAssign_add_optional_for_default(
        inside, should, AddDefaultNone(inside, should, node))

\* should_add_none after visit_AnnAssign
visit_AnnAssign(should, node) ==
    IF MatchesImplicitOptional(node.annotation) THEN TRUE ELSE should

\* inside_base_model after AddDefaultNoneCommand.visit_ClassDef
norm_visit_ClassDef(inside, fqn_set, base_model_cls) ==
    IF fqn_set = {} THEN {inside}
    ELSE {IF fqn \in base_model_cls THEN TRUE ELSE inside : fqn \in fqn_set}

\* faulty variant: the children of classname are added, but their own dependents are
\* not drained
recursively_disambiguate_shallow(classname, context_set, c) ==
    IF classname \in context_set /\ classname \in DOMAIN c
    THEN [ ctx |-> context_set \cup c[classname]
                       \cup {Alias(child) : child \in c[classname]},
           cls |-> ClsPop(c, classname) ]
    ELSE [ctx |-> context_set, cls |-> c]

RECURSIVE recursively_disambiguate(_, _, _)
RECURSIVE DisambiguateChildren(_, _, _)

\* _recursively_disambiguate(classname, context_set); the result is the
\* context set and the cls ledger after the call.  The popped set of children
\* is iterated one child at a time; each child is added (with its alias) and
\* then drained itself.
recursively_disambiguate(classname, context_set, c) ==
    IF classname \in context_set /\ classname \in DOMAIN c
    THEN DisambiguateChildren(c[classname], context_set, ClsPop(c, classname))
    ELSE [ctx |-> context_set, cls |-> c]

DisambiguateChildren(children, context_set, c) ==
    IF children = {}
    THEN [ctx |-> context_set, cls |-> c]
    ELSE LET child == CHOOSE x \in children : TRUE
             r == recursively_disambiguate(
                      child, context_set \cup {child, Alias(child)}, c)
         IN  DisambiguateChildren(children \ {child}, r.ctx, r.cls)

RECURSIVE ClassifyAgainst_first_wins(_, _, _)
\* faulty variant: a class name already in one of the two sets is not added to the other
ClassifyAgainst_first_wins(classname, base_fqns, s) ==
    IF base_fqns = <<>>
    THEN s
    ELSE LET base_classname == get_classname(Head(base_fqns))
             classified == classname \in s.base_model_cls \cup s.no_base_model_cls
             s1 == IF classified THEN s
                   ELSE IF base_classname \in s.base_model_cls
                   THEN [s EXCEPT !.base_model_cls =
                                      @ \cup {classname, Alias(classname)}]
                   ELSE IF base_classname \in s.no_base_model_cls
                   THEN [s EXCEPT !.no_base_model_cls =
                                      @ \cup {classname, Alias(classname)}]
                   ELSE s
         IN  ClassifyAgainst_first_wins(classname, Tail(base_fqns), s1)

RECURSIVE ClassifyAgainst_reclassifying(_, _, _)
\* faulty variant: a class name added to one of the two sets is taken out of the other
ClassifyAgainst_reclassifying(classname, base_fqns, s) ==
    IF base_fqns = <<>>
    THEN s
    ELSE LET base_classname == get_classname(Head(base_fqns))
             names == {classname, Alias(classname)}
             s1 == IF base_classname \in s.base_model_cls
                   THEN [s EXCEPT !.base_model_cls = @ \cup names,
                                  !.no_base_model_cls = @ \ names]
                   ELSE IF base_classname \in s.no_base_model_cls
                   THEN [s EXCEPT !.no_base_model_cls = @ \cup names,
                                  !.base_model_cls = @ \ names]
                   ELSE s
         IN  ClassifyAgainst_reclassifying(classname, Tail(base_fqns), s1)

RECURSIVE ClassifyAgainst(_, _, _)
\* visit_ClassDef, the inner loop over the candidate names of one base
ClassifyAgainst(classname, base_fqns, s) ==
    IF base_fqns = <<>>
    THEN s
    ELSE LET base_classname == get_classname(Head(base_fqns))
             s1 == IF base_classname \in s.base_model_cls
                   THEN [s EXCEPT !.base_model_cls =
                                      @ \cup {classname, Alias(classname)}]
                   ELSE IF base_classname \in s.no_base_model_cls
                   THEN [s EXCEPT !.no_base_model_cls =
                                      @ \cup {classname, Alias(classname)}]
                   ELSE s
         IN  ClassifyAgainst(classname, Tail(base_fqns), s1)

RECURSIVE RegisterPending(_, _, _)
\* visit_ClassDef: cls[get_classname(base_fqn)].add(classname) per candidate
RegisterPending(classname, base_fqns, c) ==
    IF base_fqns = <<>>
    THEN c
    ELSE RegisterPending(classname, Tail(base_fqns),
                         ClsAdd(c, get_classname(Head(base_fqns)), classname))

\* faulty variant: a base without candidate names counts as a base in no_base_model_cls
VisitBase_unresolvable_is_non_member(classname, base_fqns, s) ==
    LET s1 == IF base_fqns = <<>>
              THEN [s EXCEPT !.no_base_model_cls = @ \cup {classname, Alias(classname)}]
              ELSE ClassifyAgainst(classname, base_fqns, s)
        d1 == recursively_disambiguate(classname, s1.base_model_cls, s1.cls)
        d2 == recursively_disambiguate(classname, s1.no_base_model_cls, d1.cls)
        s2 == [ base_model_cls    |-> d1.ctx,
                no_base_model_cls |-> d2.ctx,
                cls               |-> d2.cls ]
    IN  IF classname \notin (s2.base_model_cls \cup s2.no_base_model_cls)
        THEN [s2 EXCEPT !.cls = RegisterPending(classname, base_fqns, @)]
        ELSE s2

\* visit_ClassDef: the body of `for arg in node.bases` for one base
VisitBase(classname, base_fqns, s) ==
    LET s1 == ClassifyAgainst(classname, base_fqns, s)
        d1 == recursively_disambiguate(classname, s1.base_model_cls, s1.cls)
        d2 == recursively_disambiguate(classname, s1.no_base_model_cls, d1.cls)
        s2 == [ base_model_cls    |-> d1.ctx,
                no_base_model_cls |-> d2.ctx,
                cls               |-> d2.cls ]
    IN  IF classname \notin (s2.base_model_cls \cup s2.no_base_model_cls)
        THEN [s2 EXCEPT !.cls = RegisterPending(classname, base_fqns, @)]
        ELSE s2

\* faulty variant: only the first base of the class is examined
VisitBases_first_only(classname, bases, s) ==
    IF bases = <<>>
    THEN s
    ELSE VisitBase(classname, Head(bases), s)

RECURSIVE VisitBases(_, _, _)
\* visit_ClassDef: `for arg in node.bases`
VisitBases(classname, bases, s) ==
    IF bases = <<>>
    THEN s
    ELSE VisitBases(classname, Tail(bases), VisitBase(classname, Head(bases), s))

\* faulty variant: a class without bases is not put in no_base_model_cls
visit_ClassDef_skipping_no_bases(fqn, bases, s) ==
    VisitBases(get_classname(fqn), bases, s)

\* faulty variant: a class without bases is put in no_base_model_cls only once
\* another class waits on it in cls
visit_ClassDef_no_bases_when_awaited(fqn, bases, s) ==
    LET classname == get_classname(fqn)
        s0 == IF bases = <<>> /\ classname \in DOMAIN s.cls
              THEN [s EXCEPT !.no_base_model_cls = @ \cup {classname}]
              ELSE s
    IN  VisitBases(classname, bases, s0)

\* ClassDefVisitor.visit_ClassDef for a definition whose own name resolved to fqn
visit_ClassDef(fqn, bases, s) ==
    LET classname == get_classname(fqn)
        s0 == IF bases = <<>>
              THEN [s EXCEPT !.no_base_model_cls = @ \cup {classname}]
              ELSE s
    IN  VisitBases(classname, bases, s0)

(***************************************************************************)
(* Inputs: class definitions as the metadata provider presents them.      *)
(* fqn_set is the set of candidate names of the definition; each base is   *)
(* the sequence of its candidate names in the order the set is iterated.   *)
(***************************************************************************)
MaxBases == 2

OwnNames == CanonIds \cup {Alias(n) : n \in CanonIds}

BaseRefs ==
    {<<>>} \cup {<<n>> : n \in CanonIds \cup {Root}}
           \cup {<<Alias(<<"A">>)>>, << <<"B">>, Root >>}

BaseLists == UNION {[1..n -> BaseRefs] : n \in 0..MaxBases}

Nodes ==
    {[fqn_set |-> {}, bases |-> <<>>]}
        \cup {[fqn_set |-> {f}, bases |-> b] : f \in OwnNames, b \in BaseLists}

\* the canonical names of all candidates of all bases of a base list
BaseClassnames(bases) ==
    UNION {{get_classname(bases[i][j]) : j \in 1..Len(bases[i])} : i \in 1..Len(bases)}

\* whether the name is waiting on some base in the cls ledger
IsDependent(classname, c) == \E k \in DOMAIN c : classname \in c[k]

NoCall ==
    [ classname |-> <<>>, n_bases |-> 0,
      member_base |-> FALSE, non_member_base |-> FALSE,
      unresolvable_base |-> FALSE,
      was_member |-> FALSE, was_non_member |-> FALSE,
      registered |-> FALSE ]

\* what the last call was given, how its bases and its class name stood when
\* it was made, and what it changed
CallOf(fqn, bases, s) ==
    LET classname == get_classname(fqn)
        t == visit_ClassDef(fqn, bases, s)
    IN  [ classname       |-> classname,
          n_bases         |-> Len(bases),
          member_base     |-> BaseClassnames(bases) \cap s.base_model_cls # {},
          non_member_base |-> BaseClassnames(bases) \cap s.no_base_model_cls # {},
          unresolvable_base |-> \E i \in 1..Len(bases) : bases[i] = <<>>,
          was_member      |-> classname \in s.base_model_cls,
          was_non_member  |-> classname \in s.no_base_model_cls,
          registered      |-> \E k \in DOMAIN t.cls :
                                  /\ classname \in t.cls[k]
                                  /\ ~(k \in DOMAIN s.cls /\ classname \in s.cls[k]) ]

(***************************************************************************)
(* Spec: the classification engine under arbitrary observations            *)
(***************************************************************************)
NoDefs == << >>

\* no visit_ClassDef call is in progress
DrainIdle ==
    [ pc |-> "idle", fqn |-> <<>>, all_bases |-> <<>>, pre |-> InitScratch,
      bases |-> <<>>, frames |-> <<>>, popped |-> <<>>, revisited |-> FALSE ]

\* the Normalizer after AddDefaultNoneCommand.__init__, outside any class
NormIdle ==
    /\ inside_base_model = FALSE
    /\ should_add_none = FALSE
    /\ stack = << >>
    /\ pc = "body"
    /\ original_node = NoAnnAssign
    /\ updated_node = NoAnnAssign

Init ==
    /\ scratch = InitScratch
    /\ call = NoCall
    /\ defs = NoDefs
    /\ idx = 1
    /\ passes = 0
    /\ progress = FALSE
    /\ fixed = FALSE
    /\ NormIdle
    /\ drain = DrainIdle

\* one call of ClassDefVisitor.visit_ClassDef on an arbitrary class definition
ObserveClass ==
    /\ \E node \in Nodes :
        IF node.fqn_set = {}
        THEN /\ call' = NoCall
             /\ UNCHANGED scratch
        ELSE \E fqn \in node.fqn_set :
                /\ call' = CallOf(fqn, node.bases, scratch)
                /\ scratch' = visit_ClassDef(fqn, node.bases, scratch)
    /\ UNCHANGED driverVars
    /\ UNCHANGED <<normVars, drain>>

Next == ObserveClass

Spec == Init /\ [][Next]_vars

(***************************************************************************)
(* SpecPass: the driver re-running a fixed file set until no pass adds     *)
(* anything to base_model_cls or no_base_model_cls                         *)
(***************************************************************************)
MaxPasses == 5

PassIds == {"A", "B", "C"}

PassNames == {<<i>> : i \in PassIds} \cup {Root}

\* the base lists a class of a program can have: up to MaxBases distinct
\* names other than its own, each resolving to exactly one candidate
PassBaseLists(id) ==
    UNION {{b \in [1..n -> PassNames \ {<<id>>}] :
                \A i, j \in 1..n : i # j => b[i] # b[j]} : n \in 0..MaxBases}

\* a program gives each of the three classes its base list
Programs ==
    {b \in [PassIds -> UNION {PassBaseLists(id) : id \in PassIds}] :
        \A id \in PassIds : b[id] \in PassBaseLists(id)}

\* a name as the provider reports it: in the "...src." form or not
Reported(name, relative) == IF relative THEN Alias(name) ELSE name

\* a base list of names as the provider presents it
RefsOf(b, relative) == [i \in 1..Len(b) |-> <<Reported(b[i], relative)>>]

\* the visiting orders of the three definitions
Orders == {o \in [1..3 -> PassIds] : \A i, j \in 1..3 : i # j => o[i] # o[j]}

InitPass ==
    /\ scratch = InitScratch
    /\ call = NoCall
    /\ \E o \in Orders : \E b \in Programs : \E own_rel, base_rel \in BOOLEAN :
          defs = [i \in 1..3 |->
                    [ fqn_set |-> {Reported(<<o[i]>>, own_rel)},
                      bases   |-> RefsOf(b[o[i]], base_rel) ]]
    /\ idx = 1
    /\ passes = 0
    /\ progress = FALSE
    /\ fixed = FALSE
    /\ NormIdle
    /\ drain = DrainIdle

\* the driver hands the next definition of the pass to visit_ClassDef
PassStep ==
    /\ ~fixed
    /\ idx <= Len(defs)
    /\ \E fqn \in defs[idx].fqn_set :
          LET s == visit_ClassDef(fqn, defs[idx].bases, scratch)
          IN  /\ scratch' = s
              /\ call' = CallOf(fqn, defs[idx].bases, scratch)
              /\ progress' = (progress
                                \/ s.base_model_cls # scratch.base_model_cls
                                \/ s.no_base_model_cls # scratch.no_base_model_cls)
    /\ idx' = idx + 1
    /\ UNCHANGED <<defs, passes, fixed>>
    /\ UNCHANGED <<normVars, drain>>

\* a pass that made progress is followed by another pass
PassAgain ==
    /\ ~fixed
    /\ idx > Len(defs)
    /\ progress
    /\ passes + 1 < MaxPasses
    /\ passes' = passes + 1
    /\ idx' = 1
    /\ progress' = FALSE
    /\ UNCHANGED <<scratch, call, defs, fixed>>
    /\ UNCHANGED <<normVars, drain>>

\* a pass that added nothing ends the classification stage
PassFixed ==
    /\ ~fixed
    /\ idx > Len(defs)
    /\ ~progress
    /\ passes' = passes + 1
    /\ fixed' = TRUE
    /\ UNCHANGED <<scratch, call, defs, idx, progress>>
    /\ UNCHANGED <<normVars, drain>>

NextPass == PassStep \/ PassAgain \/ PassFixed

SpecPass == InitPass /\ [][NextPass]_vars

(***************************************************************************)
(* SpecRepeat: the same file set passed over again and again, also after a *)
(* pass that added nothing; fixed records that such a pass has completed   *)
(***************************************************************************)
InitRepeat ==
    /\ scratch = InitScratch
    /\ call = NoCall
    /\ \E o \in Orders : \E b \in Programs :
          defs = [i \in 1..3 |->
                    [ fqn_set |-> {<<o[i]>>},
                      bases   |-> RefsOf(b[o[i]], FALSE) ]]
    /\ idx = 1
    /\ passes = 0
    /\ progress = FALSE
    /\ fixed = FALSE
    /\ NormIdle
    /\ drain = DrainIdle

\* the next definition of the pass is handed to visit_ClassDef
RepeatStep ==
    /\ idx <= Len(defs)
    /\ \E fqn \in defs[idx].fqn_set :
          LET s == visit_ClassDef(fqn, defs[idx].bases, scratch)
          IN  /\ scratch' = s
              /\ call' = CallOf(fqn, defs[idx].bases, scratch)
              /\ progress' = (progress
                                \/ s.base_model_cls # scratch.base_model_cls
                                \/ s.no_base_model_cls # scratch.no_base_model_cls)
    /\ idx' = idx + 1
    /\ UNCHANGED <<defs, passes, fixed>>
    /\ UNCHANGED <<normVars, drain>>

\* a completed pass is followed by another pass over the same list
RepeatPass ==
    /\ idx > Len(defs)
    /\ passes + 1 < MaxPasses
    /\ passes' = passes + 1
    /\ idx' = 1
    /\ fixed' = (fixed \/ ~progress)
    /\ progress' = FALSE
    /\ UNCHANGED <<scratch, call, defs>>
    /\ UNCHANGED <<normVars, drain>>

NextRepeat == RepeatStep \/ RepeatPass

SpecRepeat == InitRepeat /\ [][NextRepeat]_vars

(***************************************************************************)
(* SpecDrain: visit_ClassDef executed statement by statement, with the     *)
(* recursion of _recursively_disambiguate as a stack of frames.            *)
(* drain.pc is "idle", "loop" (at `for arg in node.bases`), "members" or   *)
(* "nonMembers" (inside the first or the second drain of the current base) *)
(* or "return" (the call has returned); drain.popped lists the keys the    *)
(* current drain has popped and drain.revisited tells whether it came back *)
(* to a name it had popped (both history).                                 *)
(***************************************************************************)
MaxFrames == 4

DrainRefs == {<<n>> : n \in CanonIds \cup {Root}}

DrainNodes ==
    {[fqn_set |-> {f}, bases |-> b] :
        f \in CanonIds, b \in UNION {[1..n -> DrainRefs] : n \in 0..MaxBases}}

\* a call of _recursively_disambiguate(classname, context_set) that has not
\* yet evaluated its condition
Frame(classname) == [classname |-> classname, children |-> {}, entered |-> FALSE]

\* the set that the drain in progress was given as context_set
ContextSet == IF drain.pc = "members" THEN scratch.base_model_cls ELSE scratch.no_base_model_cls

SetContextSet(s, set) ==
    IF drain.pc = "members"
    THEN [s EXCEPT !.base_model_cls = set]
    ELSE [s EXCEPT !.no_base_model_cls = set]

Top == drain.frames[Len(drain.frames)]
Rest == SubSeq(drain.frames, 1, Len(drain.frames) - 1)

\* visit_ClassDef up to `for arg in node.bases`
DrainVisitClassDef ==
    /\ drain.pc \in {"idle", "return"}
    /\ \E node \in DrainNodes : \E fqn \in node.fqn_set :
          /\ scratch' = IF node.bases = <<>>
                        THEN [scratch EXCEPT !.no_base_model_cls =
                                                 @ \cup {get_classname(fqn)}]
                        ELSE scratch
          /\ drain' = [DrainIdle EXCEPT !.pc = "loop", !.fqn = fqn,
                                        !.all_bases = node.bases,
                                        !.pre = scratch, !.bases = node.bases]
    /\ UNCHANGED <<call, driverVars, normVars>>

\* the next base: the loop over its candidate names, then the call of
\* _recursively_disambiguate(classname, base_model_cls)
DrainForBase ==
    /\ drain.pc = "loop"
    /\ drain.bases # <<>>
    /\ scratch' = ClassifyAgainst(get_classname(drain.fqn), Head(drain.bases), scratch)
    /\ drain' = [drain EXCEPT !.pc = "members",
                              !.frames = <<Frame(get_classname(drain.fqn))>>,
                              !.popped = <<>>, !.revisited = FALSE]
    /\ UNCHANGED <<call, driverVars, normVars>>

\* _recursively_disambiguate: the condition, and cls.pop(classname) if it holds;
\* the call returns at once if it does not
DrainEnter ==
    /\ drain.frames # <<>>
    /\ ~Top.entered
    /\ IF Top.classname \in ContextSet /\ Top.classname \in DOMAIN scratch.cls
       THEN /\ scratch' = [scratch EXCEPT !.cls = ClsPop(@, Top.classname)]
            /\ drain' = [drain EXCEPT
                            !.frames = Append(Rest,
                                [Top EXCEPT !.children = scratch.cls[Top.classname],
                                            !.entered = TRUE]),
                            !.popped = Append(@, Top.classname)]
       ELSE /\ UNCHANGED scratch
            /\ drain' = [drain EXCEPT
                            !.frames = Rest,
                            !.revisited =
                                @ \/ \E i \in 1..Len(drain.popped) :
                                        drain.popped[i] = Top.classname]
    /\ UNCHANGED <<call, driverVars, normVars>>

\* _recursively_disambiguate: one iteration of `for child_classname in ...`,
\* up to the recursive call
DrainChild ==
    /\ drain.frames # <<>>
    /\ Top.entered
    /\ Len(drain.frames) < MaxFrames
    /\ \E child \in Top.children :
          /\ scratch' = SetContextSet(scratch, ContextSet \cup {child, Alias(child)})
          /\ drain' = [drain EXCEPT
                          !.frames = Append(Append(Rest,
                                        [Top EXCEPT !.children = @ \ {child}]),
                                        Frame(child))]
    /\ UNCHANGED <<call, driverVars, normVars>>

\* _recursively_disambiguate: the loop over the children is over
DrainReturn ==
    /\ drain.frames # <<>>
    /\ Top.entered
    /\ Top.children = {}
    /\ drain' = [drain EXCEPT !.frames = Rest]
    /\ UNCHANGED <<scratch, call, driverVars, normVars>>

\* the first drain has returned: _recursively_disambiguate(classname,
\* no_base_model_cls) is called
DrainSecond ==
    /\ drain.pc = "members"
    /\ drain.frames = <<>>
    /\ drain' = [drain EXCEPT !.pc = "nonMembers",
                              !.frames = <<Frame(get_classname(drain.fqn))>>,
                              !.popped = <<>>, !.revisited = FALSE]
    /\ UNCHANGED <<scratch, call, driverVars, normVars>>

\* the second drain has returned: the class is registered under the base if
\* it is in neither set, and the loop goes on to the next base
DrainRegister ==
    /\ drain.pc = "nonMembers"
    /\ drain.frames = <<>>
    /\ scratch' = IF get_classname(drain.fqn) \notin scratch.base_model_cls \cup scratch.no_base_model_cls
                  THEN [scratch EXCEPT !.cls =
                            RegisterPending(get_classname(drain.fqn),
                                            Head(drain.bases), @)]
                  ELSE scratch
    /\ drain' = [drain EXCEPT !.pc = "loop", !.bases = Tail(@),
                              !.popped = <<>>, !.revisited = FALSE]
    /\ UNCHANGED <<call, driverVars, normVars>>

\* `for arg in node.bases` is over: visit_ClassDef returns
DrainDone ==
    /\ drain.pc = "loop"
    /\ drain.bases = <<>>
    /\ drain' = [drain EXCEPT !.pc = "return"]
    /\ UNCHANGED <<scratch, call, driverVars, normVars>>

DrainStep == DrainEnter \/ DrainChild \/ DrainReturn

NextDrain ==
    \/ DrainVisitClassDef
    \/ DrainForBase
    \/ DrainEnter
    \/ DrainChild
    \/ DrainReturn
    \/ DrainSecond
    \/ DrainRegister
    \/ DrainDone

\* the interpreter keeps executing a call of _recursively_disambiguate that
\* has a statement left to execute
SpecDrain == Init /\ [][NextDrain]_vars /\ WF_vars(DrainStep)

(***************************************************************************)
(* SpecNorm: AddDefaultNoneCommand traversing a module after the           *)
(* classification stage                                                    *)
(***************************************************************************)
MaxDepth == 2
MaxArgs == 2

\* a base class of a library that is outside the analysed files
External == <<"X">>

\* the classification the Normalizer reads: class A(BaseModel), class B
\* (no bases) and class C(X), X never observed, have been observed
NormScratch ==
    visit_ClassDef(<<"C">>, << <<External>> >>,
        visit_ClassDef(<<"B">>, << >>,
            visit_ClassDef(<<"A">>, << <<Root>> >>, InitScratch)))

\* the class definitions of the module: resolved to A, to A's alias, to B or
\* to C, or not resolved at all
NormClasses == { {}, {<<"A">>}, {Alias(<<"A">>)}, {<<"B">>}, {<<"C">>} }

IntT == Name("int")
StrT == Name("str")
NoneName == Name("None")
Typing(a) == Attribute(Name("typing"), Name(a))

Annotations ==
    { Subscript(Name("Optional"), <<IntT>>),
      Subscript(Typing("Optional"), <<IntT>>),
      Subscript(Name("Union"), <<IntT, NoneName>>),
      Subscript(Typing("Union"), <<NoneName, IntT>>),
      Subscript(Name("Union"), <<IntT, StrT>>),
      Subscript(Name("List"), <<Subscript(Name("Optional"), <<IntT>>)>>),
      Name("Any"),
      Typing("Any"),
      BinaryOperation(IntT, "|", NoneName),
      BinaryOperation(NoneName, "|", IntT),
      BinaryOperation(IntT, "|", StrT),
      IntT }

\* the arguments of a Field(...) call: positional ones first, then keywords
ArgMenu ==
    { Arg("", Integer("5")), Arg("default", Integer("5")),
      Arg("default_factory", Name("list")), Arg("description", Name("d")) }

ArgLists ==
    UNION {{a \in [1..n -> ArgMenu] :
                \A i \in 1..n : \A j \in 1..n :
                    (i < j /\ a[i].value # "") => a[j].value # ""} : n \in 0..MaxArgs}

Values ==
    { NoValue, NoneName, Integer("5"), Call(Name("list"), << >>),
      Call(Attribute(Name("pydantic"), Name("Field")), << >>) }
        \cup {Call(Name("Field"), a) : a \in ArgLists}

Fields == {AnnAssign(a, v) : a \in Annotations, v \in Values}

InitNorm ==
    /\ scratch = NormScratch
    /\ call = NoCall
    /\ defs = NoDefs
    /\ idx = 1
    /\ passes = 0
    /\ progress = FALSE
    /\ fixed = FALSE
    /\ NormIdle
    /\ drain = DrainIdle

\* AddDefaultNoneCommand.visit_ClassDef on a class definition in the current body
EnterClass ==
    /\ pc = "body"
    /\ Len(stack) < MaxDepth
    /\ \E fqn_set \in NormClasses :
          /\ stack' = Append(stack, fqn_set)
          /\ inside_base_model' \in
                norm_visit_ClassDef(inside_base_model, fqn_set, scratch.base_model_cls)
    /\ UNCHANGED <<should_add_none, pc, original_node, updated_node>>
    /\ UNCHANGED <<clsVars, driverVars, drain>>

\* AddDefaultNoneCommand.leave_ClassDef at the end of the innermost class body
LeaveClass ==
    /\ pc = "body"
    /\ stack # << >>
    /\ stack' = SubSeq(stack, 1, Len(stack) - 1)
    /\ inside_base_model' = FALSE
    /\ UNCHANGED <<should_add_none, pc, original_node, updated_node>>
    /\ UNCHANGED <<clsVars, driverVars, drain>>

\* AddDefaultNoneCommand.visit_AnnAssign on a field of the current body
VisitField ==
    /\ pc = "body"
    /\ \E f \in Fields :
          /\ original_node' = f
          /\ updated_node' = f
          /\ should_add_none' = visit_AnnAssign(should_add_none, f)
    /\ pc' = "field"
    /\ UNCHANGED <<inside_base_model, stack, clsVars, driverVars, drain>>

\* AddDefaultNoneCommand.leave_AnnAssign on the field being visited
LeaveField ==
    /\ pc = "field"
    /\ updated_node' = leave_AnnAssign(inside_base_model, should_add_none, updated_node)
    /\ should_add_none' = FALSE
    /\ pc' = "left"
    /\ UNCHANGED <<inside_base_model, stack, original_node, clsVars, driverVars, drain>>

\* leave_AnnAssign has returned updated_node to the traversal, which puts it
\* in the tree and moves on to the next statement of the body
NextStatement ==
    /\ pc = "left"
    /\ pc' = "body"
    /\ original_node' = NoAnnAssign
    /\ updated_node' = NoAnnAssign
    /\ UNCHANGED <<inside_base_model, should_add_none, stack, clsVars, driverVars, drain>>

NextNorm == EnterClass \/ LeaveClass \/ VisitField \/ LeaveField \/ NextStatement

SpecNorm == InitNorm /\ [][NextNorm]_vars

(***************************************************************************)
(* Properties                                                              *)
(***************************************************************************)
members == scratch.base_model_cls
nonMembers == scratch.no_base_model_cls
pending == scratch.cls

\* C1: after any sequence of visit_ClassDef calls, base_model_cls and
\* no_base_model_cls have no class name in common.
C1_Disjoint == members \cap nonMembers = {}

\* the class a definition of the file set declares, and its bases in order
DefName(d) == get_classname(CHOOSE n \in d.fqn_set : TRUE)
DefBaseSeq(d) == [i \in 1..Len(d.bases) |-> get_classname(d.bases[i][1])]
DefBases(d) == {DefBaseSeq(d)[i] : i \in 1..Len(d.bases)}

\* the file set is the chain A(B), B(C), C(<last>) in some visiting order
IsChain(last_bases) ==
    /\ defs # NoDefs
    /\ \A i \in 1..Len(defs) :
          \/ DefName(defs[i]) = <<"A">> /\ DefBaseSeq(defs[i]) = << <<"B">> >>
          \/ DefName(defs[i]) = <<"B">> /\ DefBaseSeq(defs[i]) = << <<"C">> >>
          \/ DefName(defs[i]) = <<"C">> /\ DefBaseSeq(defs[i]) = last_bases

ChainNames == {<<"A">>, <<"B">>, <<"C">>}

FirstPassCompleted == passes >= 1 \/ (passes = 0 /\ idx > Len(defs))

\* C2: for the chain A(B), B(C), C(<root>) observed in any order, A, B and C
\* are all in base_model_cls as soon as the first pass over the three
\* definitions is complete.
C2_Transitivity ==
    (IsChain(<<Root>>) /\ FirstPassCompleted) => ChainNames \subseteq members

\* the forward-reference order A, B, C: the first pass has just ended
C2_Witness ==
    /\ IsChain(<<Root>>)
    /\ DefName(defs[1]) = <<"A">>
    /\ DefName(defs[2]) = <<"B">>
    /\ passes = 0
    /\ idx > Len(defs)
    /\ ChainNames \subseteq members

\* C3: for the chain A(B), B(C), C() observed in any order and re-observed
\* until a pass adds nothing, A, B and C are all in no_base_model_cls and none
\* of them is in base_model_cls.
C3_NegativeTransitivity ==
    (IsChain(<< >>) /\ fixed) =>
        /\ ChainNames \subseteq nonMembers
        /\ ChainNames \cap members = {}

\* the order A, B, C needs a second pass to classify A and B
C3_Witness ==
    /\ IsChain(<< >>)
    /\ DefName(defs[1]) = <<"A">>
    /\ DefName(defs[2]) = <<"B">>
    /\ fixed
    /\ passes >= 3
    /\ ChainNames \subseteq nonMembers

\* C4: a visit_ClassDef call with two or more bases, at least one of which is
\* in base_model_cls when the call is made, returns with the class name in
\* base_model_cls.
C4_OrSemantics ==
    (call.n_bases >= 2 /\ call.member_base) => call.classname \in members

\* a call with one base in no_base_model_cls and another in base_model_cls
C4_Witness ==
    /\ call.n_bases >= 2
    /\ call.member_base
    /\ call.non_member_base
    /\ call.classname \in members

\* the class definition directly enclosing the traversal position is in
\* base_model_cls
InMemberClass ==
    /\ stack # << >>
    /\ \E fqn \in stack[Len(stack)] : get_classname(fqn) \in members

ValueChanged == updated_node.value # original_node.value
AnnotationChanged == updated_node.annotation # original_node.annotation

\* C5: for every field that leave_AnnAssign has returned, not both the value
\* and the annotation were changed.
C5_MutuallyExclusive ==
    pc = "left" => ~(ValueChanged /\ AnnotationChanged)

\* a Field(...) default of a member class's field was given its None
C5_Witness ==
    /\ pc = "left"
    /\ InMemberClass
    /\ IsFieldCall(original_node.value)
    /\ ValueChanged
    /\ ~AnnotationChanged

\* the Normalizer's output for a field node in a second run over the
\* rewritten module (same class nesting, fresh should_add_none)
SecondRun(node) ==
    leave_AnnAssign(inside_base_model, visit_AnnAssign(FALSE, node), node)

\* C6: for every field of a member class, a second run of the Normalizer on
\* the field the first run returned changes nothing.
C6_Idempotent ==
    (pc = "left" /\ InMemberClass) => SecondRun(updated_node) = updated_node

\* a field whose annotation the first run wrapped in Optional[...]
C6_Witness ==
    /\ pc = "left"
    /\ InMemberClass
    /\ AnnotationChanged
    /\ MatchesImplicitOptional(updated_node.annotation)
    /\ SecondRun(updated_node) = updated_node

\* C7: a field whose directly enclosing class is not in base_model_cls (or
\* that is in no class at all) is returned unchanged.
C7_OutsideUnmodified ==
    (pc = "left" /\ ~InMemberClass) => updated_node = original_node

DefaultKeywords == {"default", "default_factory"}

\* the Field(...) call carries no default: no arguments, or a keyword first
\* and no default/default_factory keyword
FieldWithoutDefault(v) ==
    /\ IsFieldCall(v)
    /\ \/ ArgsOf(v) = << >>
       \/ /\ ArgsOf(v)[1].value # ""
          /\ \A i \in 1..Len(ArgsOf(v)) : ArgsOf(v)[i].value \notin DefaultKeywords

\* the inject-default rule as stated: the field it prescribes
InjectExpected(f) ==
    IF f.value = NoValue
    THEN AnnAssign(f.annotation, NoneName)
    ELSE IF FieldWithoutDefault(f.value)
    THEN AnnAssign(f.annotation,
                   Call(Name("Field"), <<Arg("", NoneName)>> \o ArgsOf(f.value)))
    ELSE f

\* C8: a field of a member class with an implicitly-optional annotation is
\* returned as the inject-default rule prescribes, annotation unchanged.
C8_InjectDefault ==
    (pc = "left" /\ InMemberClass /\ MatchesImplicitOptional(original_node.annotation))
        => updated_node = InjectExpected(original_node)

\* the promote-to-optional rule as stated: the field it prescribes
PromoteExpected(f) ==
    IF f.value # NoValue /\ ~FieldWithoutDefault(f.value)
    THEN AnnAssign(Subscript(Name("Optional"), <<f.annotation>>), f.value)
    ELSE f

\* C9: a field of a member class whose annotation is not implicitly-optional
\* is returned as the promote-to-optional rule prescribes.
C9_PromoteToOptional ==
    (pc = "left" /\ InMemberClass /\ ~MatchesImplicitOptional(original_node.annotation))
        => updated_node = PromoteExpected(original_node)

RECURSIVE DerivedFrom(_)
\* the declared classes with a chain of bases ending in known: least fixed point
DerivedFrom(known) ==
    LET more == {DefName(defs[i]) : i \in
                    {j \in 1..Len(defs) : DefBases(defs[j]) \cap known # {}}}
    IN  IF more \subseteq known THEN known ELSE DerivedFrom(known \cup more)

CanonicalMembers == {n \in members : get_classname(n) = n}

\* C10: once a pass over the file set adds nothing, the canonical names in
\* base_model_cls are exactly the seeds and the declared classes with a chain
\* of bases ending at a seed.
C10_MembersAreTheDerived ==
    fixed => CanonicalMembers = DerivedFrom(BaseModelSeeds)

\* a class reaches a seed only through its second base, another class does
\* not reach one at all
C10_Witness ==
    /\ fixed
    /\ \E i \in 1..Len(defs) :
          /\ Len(defs[i].bases) = 2
          /\ DefBaseSeq(defs[i])[1] \notin DerivedFrom(BaseModelSeeds)
          /\ DefBaseSeq(defs[i])[2] \in DerivedFrom(BaseModelSeeds) \ BaseModelSeeds
          /\ DefName(defs[i]) \in members
    /\ \E i \in 1..Len(defs) : DefName(defs[i]) \notin members

\* every file set reaches its fixed point within MaxPasses passes
PassesSuffice == (idx > Len(defs) /\ progress) => passes + 1 < MaxPasses

\* C11: no visit_ClassDef call removes a name from base_model_cls or from
\* no_base_model_cls: each set after a call contains the set before it, also
\* when the call observes an already classified class with other bases.
C11_MonotonicGrowth ==
    [][members \subseteq members' /\ nonMembers \subseteq nonMembers']_vars

\* a class already in no_base_model_cls was observed again with a base in
\* base_model_cls: it was added to base_model_cls and is still in no_base_model_cls
C11_Witness ==
    /\ call.was_non_member
    /\ ~call.was_member
    /\ call.member_base
    /\ call.classname \in members
    /\ call.classname \in nonMembers

\* the class definition directly enclosing the traversal position waits on a
\* base in the cls ledger and none of the bases it waits on is in either set
InUnresolvedClass ==
    /\ stack # << >>
    /\ \E fqn \in stack[Len(stack)] :
          /\ IsDependent(get_classname(fqn), pending)
          /\ \A k \in DOMAIN pending :
                get_classname(fqn) \in pending[k] => k \notin members \cup nonMembers

C12_StaysPending ==
    \A i \in 1..Len(defs) :
        (/\ passes > 0 \/ i < idx
         /\ defs[i].bases # << >>
         /\ DefBases(defs[i]) \cap (members \cup nonMembers) = {})
            => /\ DefName(defs[i]) \notin members \cup nonMembers
               /\ \A b \in DefBases(defs[i]) :
                     b \in DOMAIN pending /\ DefName(defs[i]) \in pending[b]

\* C13: when a visit_ClassDef call has returned, no class name in
\* base_model_cls or no_base_model_cls is a key of cls with dependents waiting.
C13_PropagationComplete ==
    \A k \in DOMAIN pending :
        pending[k] # {} => k \notin members \cup nonMembers

\* C14: a visit_ClassDef call that returns with the class name in
\* base_model_cls or no_base_model_cls has added the class name to no set of cls.
C14_RegisteredOnlyIfUnclassified ==
    call.classname \in members \cup nonMembers => ~call.registered

\* C15: at every field whose directly enclosing class is in base_model_cls
\* inside_base_model is true, and the field is returned as leave_AnnAssign
\* rewrites a field of a member class, whatever statements precede it in
\* the body.
C15_FieldsIndependent ==
    InMemberClass =>
        /\ pc \in {"field", "left"} => inside_base_model
        /\ pc = "left" =>
              updated_node = leave_AnnAssign(TRUE,
                                 visit_AnnAssign(FALSE, original_node), original_node)

\* the field carries a default: a plain default expression, or a
\* Field(...) call with a positional first argument or a default or
\* default_factory keyword
CarriesDefault(v) == v # NoValue /\ ~FieldWithoutDefault(v)

\* C18: a field of a member class that leave_AnnAssign has returned has an
\* implicitly-optional annotation exactly if it carries a default.
C18_OptionalIffDefault ==
    (pc = "left" /\ InMemberClass) =>
        (MatchesImplicitOptional(updated_node.annotation)
            <=> CarriesDefault(updated_node.value))

\* the last call was given a base without candidate names and no base that
\* was in base_model_cls or no_base_model_cls
UnresolvableBaseOnly(c) ==
    c.unresolvable_base /\ ~c.member_base /\ ~c.non_member_base

\* C19: a visit_ClassDef call on a class with a base that has no candidate
\* names and no classified base returns with the class in neither set and
\* both sets as they were; a call on a definition whose own name has no
\* candidate names leaves scratch as it was.
C19_UnresolvableChangesNothing ==
    [][ /\ UnresolvableBaseOnly(call') =>
              /\ call'.classname \notin members' \cup nonMembers'
              /\ members' = members
              /\ nonMembers' = nonMembers
        /\ call' = NoCall => scratch' = scratch ]_vars

\* C19 for a class that is in neither set when the call is made: the call
\* returns with the class in neither set and both sets as they were; a call
\* on a definition whose own name has no candidate names leaves scratch as
\* it was.
C19_UnclassifiedStaysOut ==
    [][ /\ (/\ UnresolvableBaseOnly(call')
            /\ ~call'.was_member
            /\ ~call'.was_non_member) =>
              /\ call'.classname \notin members' \cup nonMembers'
              /\ members' = members
              /\ nonMembers' = nonMembers
        /\ call' = NoCall => scratch' = scratch ]_vars

\* an unclassified class was observed with one base without candidate names
\* and one unclassified base: it waits on the latter and is in neither set
C19_Witness ==
    /\ UnresolvableBaseOnly(call)
    /\ call.n_bases >= 2
    /\ ~call.was_member
    /\ ~call.was_non_member
    /\ call.registered
    /\ call.classname \notin members \cup nonMembers

\* C16: once a full pass over the list has added nothing to base_model_cls
\* and no_base_model_cls, no later pass over the same list in the same order
\* adds anything to them.
C16_NoProgressIsFinal == fixed => ~progress

\* a pass that classified a class and left another one waiting in cls was
\* followed by a pass that added nothing and by a further full pass
C16_Witness ==
    /\ fixed
    /\ idx > Len(defs)
    /\ passes >= 2
    /\ members # InitScratch.base_model_cls
    /\ DOMAIN pending # {}

\* the statement-by-statement execution of a call returns with the scratch
\* that visit_ClassDef computes for it
DrainAgrees ==
    drain.pc = "return" =>
        scratch = visit_ClassDef(drain.fqn, drain.all_bases, drain.pre)

\* C17: every call of _recursively_disambiguate returns, also when cls holds
\* a cycle; no key of cls is popped twice by one drain, and a drain adds no
\* key to cls.
C17_DrainTerminates ==
    /\ (drain.frames # <<>>) ~> (drain.frames = <<>>)
    /\ [](\A i, j \in 1..Len(drain.popped) :
              i # j => drain.popped[i] # drain.popped[j])
    /\ [][drain.frames # <<>> => DOMAIN pending' \subseteq DOMAIN pending]_vars

\* a drain has returned that popped two keys and came back to a name it had
\* already popped: cls held a cycle
C17_Witness ==
    /\ drain.pc \in {"members", "nonMembers"}
    /\ drain.frames = <<>>
    /\ Len(drain.popped) >= 2
    /\ drain.revisited

====
